---- MODULE Spec2Model ----
(***************************************************************************)
(* Model of utils/assists/cipher.py: keygen, encrypt and decrypt.          *)
(*                                                                         *)
(* Text (str) is a sequence of code points, bytes a sequence of 0..255.    *)
(* The conversions the code goes through are modelled by what they do:     *)
(* str.encode / bytes.decode (UTF-8), urlsafe_b64encode, the lenient       *)
(* urlsafe_b64decode that Fernet applies to keys and tokens, PKCS7         *)
(* padding and the Fernet token layout  version | time | iv | ct | mac.    *)
(* The primitives below them are idealised and scaled down: the block      *)
(* cipher and the MAC are keyed bytewise bijections (decryption under the  *)
(* right key inverts, a MAC never collides), PBKDF2 is a collision-free    *)
(* function of (password, salt), time and iv are one byte each.            *)
(***************************************************************************)
EXTENDS Integers, Sequences, FiniteSets, TLC

\* ------------------------------------------------------------------ bounds
\* Scaled sizes (the program uses a 32-byte key and 16-byte cipher blocks).
KeyLen == 2
BlockSize == 2
\* Longest plaintext message, in code points.
MaxMsgLen == 1

\* ------------------------------------------------------------ python values
\* None, and a present value v.
None == [some |-> FALSE, val |-> <<>>]
Some(v) == [some |-> TRUE, val |-> v]
\* Outcome of a step that may raise: the value, or an exception.
Ok(v) == [ok |-> TRUE, val |-> v]
Raise == [ok |-> FALSE, val |-> <<>>]

\* The sequence with the elements of f, a function on 1..n.
List(f) == <<>> \o f

\* Body applied to the value of v: a statement's result given its name.
With(v, Body(_)) == CHOOSE r \in {Body(w) : w \in {v}} : TRUE

RECURSIVE Sum(_)
Sum(s) == IF s = <<>> THEN 0 ELSE Head(s) + Sum(Tail(s))

\* -------------------------------------------------------------------- UTF-8
IsCont(b) == b >= 128 /\ b <= 191
IsSurrogate(c) == c >= 55296 /\ c <= 57343

\* The UTF-8 bytes of one code point.
Utf8Bytes(c) ==
  IF c < 128 THEN <<c>>
  ELSE IF c < 2048 THEN <<192 + (c \div 64), 128 + (c % 64)>>
  ELSE IF c < 65536
    THEN <<224 + (c \div 4096), 128 + ((c \div 64) % 64), 128 + (c % 64)>>
  ELSE <<240 + (c \div 262144), 128 + ((c \div 4096) % 64),
         128 + ((c \div 64) % 64), 128 + (c % 64)>>

RECURSIVE Utf8Concat(_)
Utf8Concat(t) ==
  IF Len(t) = 0 THEN <<>>
  ELSE IF Len(t) = 1 THEN Utf8Bytes(t[1])
  ELSE LET h == Len(t) \div 2
       IN Utf8Concat(SubSeq(t, 1, h)) \o Utf8Concat(SubSeq(t, h + 1, Len(t)))

\* str.encode(): UnicodeEncodeError on a lone surrogate.
Utf8Encode(t) ==
  IF \E i \in 1..Len(t) : IsSurrogate(t[i]) THEN Raise ELSE Ok(Utf8Concat(t))

\* Length of the sequence a lead byte announces, 0 for a byte that starts none.
Utf8Width(b1) ==
  IF b1 < 128 THEN 1
  ELSE IF b1 >= 194 /\ b1 <= 223 THEN 2
  ELSE IF b1 >= 224 /\ b1 <= 239 THEN 3
  ELSE IF b1 >= 240 /\ b1 <= 244 THEN 4
  ELSE 0

\* Code point of the sequence of width w that starts at b[i].
Utf8Point(b, i, w) ==
  IF w = 1 THEN b[i]
  ELSE IF w = 2 THEN (b[i] - 192) * 64 + (b[i + 1] - 128)
  ELSE IF w = 3 THEN (b[i] - 224) * 4096 + (b[i + 1] - 128) * 64 + (b[i + 2] - 128)
  ELSE (b[i] - 240) * 262144 + (b[i + 1] - 128) * 4096
       + (b[i + 2] - 128) * 64 + (b[i + 3] - 128)

\* bytes.decode(): strict UTF-8, UnicodeDecodeError on anything malformed:
\* every byte that is no continuation byte starts a sequence of exactly its
\* announced width, shortest form, no surrogate; the text is the code points
\* of those sequences in order.
Utf8Decode(bytes) ==
  With(bytes, LAMBDA b :
  With(SelectSeq([i \in 1..Len(b) |-> i], LAMBDA i : ~IsCont(b[i])), LAMBDA leads :
  LET n == Len(b)
      WellFormed(i) ==
        LET w == Utf8Width(b[i]) IN
        /\ w > 0 /\ i + w - 1 <= n
        /\ \A j \in (i + 1)..(i + w - 1) : IsCont(b[j])
        /\ i + w <= n => ~IsCont(b[i + w])
        /\ w = 3 => Utf8Point(b, i, w) >= 2048 /\ ~IsSurrogate(Utf8Point(b, i, w))
        /\ w = 4 => Utf8Point(b, i, w) >= 65536 /\ Utf8Point(b, i, w) <= 1114111
  IN IF n > 0 /\ IsCont(b[1]) THEN Raise
     ELSE IF \E k \in 1..Len(leads) : ~WellFormed(leads[k]) THEN Raise
     ELSE Ok(List([k \in 1..Len(leads) |->
                    Utf8Point(b, leads[k], Utf8Width(b[leads[k]]))]))))

\* ------------------------------------------------------------------- base64
\* The URL-safe alphabet: A-Z a-z 0-9 - _
B64Char(v) ==
  IF v < 26 THEN 65 + v
  ELSE IF v < 52 THEN 97 + (v - 26)
  ELSE IF v < 62 THEN 48 + (v - 52)
  ELSE IF v = 62 THEN 45 ELSE 95

\* Value of a character for urlsafe_b64decode: it first maps '-' to '+' and
\* '_' to '/', then decodes the standard alphabet, so '+' and '/' count as
\* well; 64 is a character outside the alphabet.
B64Val(c) ==
  IF c >= 65 /\ c <= 90 THEN c - 65
  ELSE IF c >= 97 /\ c <= 122 THEN c - 97 + 26
  ELSE IF c >= 48 /\ c <= 57 THEN c - 48 + 52
  ELSE IF c = 45 \/ c = 43 THEN 62
  ELSE IF c = 95 \/ c = 47 THEN 63
  ELSE 64

IsData(c) == B64Val(c) < 64

\* base64.urlsafe_b64encode: every 3 bytes give 4 characters, a last group
\* of 1 or 2 bytes is filled with zero bits and padded with '='.
urlsafe_b64encode(bytes) ==
  With(bytes, LAMBDA b :
  LET n == Len(b)
      At(i) == IF i <= n THEN b[i] ELSE 0
      Quad(j) ==
        LET g == 3 * ((j - 1) \div 4)
            pos == (j - 1) % 4
        IN IF pos = 0 THEN B64Char(At(g + 1) \div 4)
           ELSE IF pos = 1 THEN B64Char((At(g + 1) % 4) * 16 + (At(g + 2) \div 16))
           ELSE IF pos = 2
             THEN (IF g + 2 > n THEN 61
                   ELSE B64Char((At(g + 2) % 16) * 4 + (At(g + 3) \div 64)))
           ELSE (IF g + 3 > n THEN 61 ELSE B64Char(At(g + 3) % 64))
  IN List([j \in 1..(4 * ((n + 2) \div 3)) |-> Quad(j)]))

\* base64.urlsafe_b64decode, i.e. binascii.a2b_base64 in its default lenient
\* mode. Characters outside the alphabet are skipped. A '=' met with 3
\* characters of a quad read, or a second '=' in a row with 2 read, ends the
\* input, whatever follows; any other '=' is skipped. Without such an end
\* the characters must fill whole quads (binascii.Error otherwise). The
\* bits of a last incomplete quad that fill no byte are dropped unchecked.
urlsafe_b64decode(text) ==
  With(text, LAMBDA s :
  With({i \in 1..Len(s) : s[i] = 61}, LAMBDA pads :
  With(LET DataBefore(i) == Len(SelectSeq(SubSeq(s, 1, i - 1), IsData))
       IN {i \in pads :
             \/ DataBefore(i) % 4 = 3
             \/ /\ DataBefore(i) % 4 = 2
                /\ \E j \in pads : j < i /\ DataBefore(j) = DataBefore(i)},
       LAMBDA ends :
  With(IF ends = {} THEN Len(s) + 1 ELSE CHOOSE i \in ends : \A j \in ends : i <= j,
       LAMBDA stop :
  With(SelectSeq(SubSeq(s, 1, stop - 1), IsData), LAMBDA data :
  LET c == Len(data)
      v(i) == B64Val(data[i])
      Byte(k) ==
        LET g == 4 * ((k - 1) \div 3)
            r == (k - 1) % 3
        IN IF r = 0 THEN v(g + 1) * 4 + (v(g + 2) \div 16)
           ELSE IF r = 1 THEN (v(g + 2) % 16) * 16 + (v(g + 3) \div 4)
           ELSE (v(g + 3) % 4) * 64 + v(g + 4)
      count == 3 * (c \div 4) + (IF c % 4 = 0 THEN 0 ELSE (c % 4) - 1)
  IN IF ends = {} /\ c % 4 # 0 THEN Raise
     ELSE Ok(List([k \in 1..count |-> Byte(k)])))))))

\* ------------------------------------------------------- idealised primitives
\* PKCS7 padding to the cipher's block size: always at least one byte.
Pad(p) ==
  LET k == BlockSize - (Len(p) % BlockSize) IN p \o [i \in 1..k |-> k]

\* PKCS7 unpadding: ValueError unless the last byte k is in 1..BlockSize and
\* the last k bytes all equal k.
Unpad(padded) ==
  With(padded, LAMBDA p :
  LET n == Len(p) IN
  IF n = 0 \/ n % BlockSize # 0 THEN Raise
  ELSE LET k == p[n] IN
    IF k < 1 \/ k > BlockSize \/ k > n THEN Raise
    ELSE IF \E i \in (n - k + 1)..n : p[i] # k THEN Raise
    ELSE Ok(SubSeq(p, 1, n - k)))

\* Block cipher in CBC mode, idealised as a bytewise bijection keyed by
\* (encryption key, iv): the same key and iv invert it, another key yields
\* other bytes, whose padding may or may not happen to be well-formed.
CbcEncrypt(encryption_key, iv, plaintext) ==
  With(plaintext, LAMBDA p :
  With(Sum(encryption_key) + iv, LAMBDA k :
  List([i \in 1..Len(p) |-> (p[i] + k) % 256])))

CbcDecrypt(encryption_key, iv, ciphertext) ==
  With(ciphertext, LAMBDA c :
  With((Sum(encryption_key) + iv) % 256, LAMBDA k :
  List([i \in 1..Len(c) |-> (c[i] + 256 - k) % 256])))

\* HMAC, idealised as collision-free: a keyed bijection of the signed bytes,
\* so that the tag of other bytes, or under another signing key, differs.
Hmac(signing_key, data) ==
  With(data, LAMBDA d :
  With(Sum(signing_key), LAMBDA k :
  List([i \in 1..Len(d) |-> (d[i] + k + i) % 256])))

\* ------------------------------------------------------------------- Fernet
\* Slip: both halves of the key taken from its second half.
Fernet_one_half(key) ==
  With(urlsafe_b64decode(key), LAMBDA k :
  IF ~k.ok \/ Len(k.val) # KeyLen THEN Raise
  ELSE Ok([signing_key |-> SubSeq(k.val, (KeyLen \div 2) + 1, KeyLen),
           encryption_key |-> SubSeq(k.val, (KeyLen \div 2) + 1, KeyLen)]))

\* Fernet(key): the key text is decoded leniently and must hold KeyLen bytes
\* (ValueError otherwise); the first half signs, the second half encrypts.
Fernet(key) ==
  With(urlsafe_b64decode(key), LAMBDA k :
  IF ~k.ok \/ Len(k.val) # KeyLen THEN Raise
  ELSE Ok([signing_key |-> SubSeq(k.val, 1, KeyLen \div 2),
           encryption_key |-> SubSeq(k.val, (KeyLen \div 2) + 1, KeyLen)]))

\* Fernet.encrypt with the clock reading and the iv it drew: the token
\* base64(0x80 | time | iv | ciphertext | mac), as bytes of text.
FernetEncrypt(f, current_time, iv, data) ==
  With(CbcEncrypt(f.encryption_key, iv, Pad(data)), LAMBDA ciphertext :
  With(<<128, current_time, iv>> \o ciphertext, LAMBDA basic_parts :
  urlsafe_b64encode(basic_parts \o Hmac(f.signing_key, basic_parts))))

\* Slip: the MAC is not verified before decrypting.
FernetDecrypt_unverified(f, token) ==
  With(urlsafe_b64decode(token), LAMBDA d :
  IF ~d.ok THEN Raise
  ELSE LET n == Len(d.val) IN
    IF n < 2 \/ d.val[1] # 128 THEN Raise
    ELSE IF n % 2 # 0 THEN Raise
    ELSE With(SubSeq(d.val, 1, n \div 2), LAMBDA basic_parts :
         IF Len(basic_parts) < 3 THEN Raise
         ELSE Unpad(CbcDecrypt(f.encryption_key, basic_parts[3],
                               SubSeq(basic_parts, 4, Len(basic_parts))))))

\* Fernet.decrypt without ttl: InvalidToken unless the token decodes, starts
\* with the version byte, carries the MAC of its first part under the
\* signing key and decrypts to well-padded bytes.
FernetDecrypt(f, token) ==
  With(urlsafe_b64decode(token), LAMBDA d :
  IF ~d.ok THEN Raise
  ELSE LET n == Len(d.val) IN
    IF n < 2 \/ d.val[1] # 128 THEN Raise
    ELSE IF n % 2 # 0 THEN Raise
    ELSE With(SubSeq(d.val, 1, n \div 2), LAMBDA basic_parts :
         LET mac == SubSeq(d.val, (n \div 2) + 1, n) IN
         IF mac # Hmac(f.signing_key, basic_parts) \/ Len(basic_parts) < 3 THEN Raise
         ELSE Unpad(CbcDecrypt(f.encryption_key, basic_parts[3],
                               SubSeq(basic_parts, 4, Len(basic_parts))))))

\* PBKDF2-HMAC-SHA512 of the password under the salt, idealised as a
\* collision-free function of (password, salt) to KeyLen bytes. The first
\* half of the toy output depends on the password alone, so that keys with
\* equal signing halves and different encryption halves occur.
PBKDF2HMAC(password, salt) ==
  List([i \in 1..KeyLen |-> IF i <= KeyLen \div 2
                              THEN (Sum(password) + i) % 256
                              ELSE (Sum(password) + Sum(salt) + i) % 256])

\* ------------------------------------------------------------------ inputs
\* Code points of the messages: 'a', U+00E9 (two bytes in UTF-8) and the
\* lone surrogate U+D800, which str.encode() rejects.
Chars == {97, 233, 55296}
Texts == UNION {[1..n -> Chars] : n \in 0..MaxMsgLen}
\* A text argument, or None given where text is expected.
Messages == {None} \cup {Some(m) : m \in Texts}

Passcodes == {None, Some(<<112>>), Some(<<113>>)}
\* What os.urandom returns (a salt), or its failure.
Salts == {<<1>>, <<2>>}
Entropy == {Raise} \cup {Ok(x) : x \in Salts}
KeyNames == {None, Some(<<>>), Some(<<75>>)}
ReturnKeys == {"None", "True", "False"}
\* What becomes of a Popen call.
Spawns == {"stored", "failed", "OSError"}
\* What Fernet.encrypt reads from the clock and from os.urandom.
Times == {7}
IVs == {3, 200}

\* _KEY_NAME = 'ADMIN_USER_KEY'
_KEY_NAME == <<65, 68, 77, 73, 78, 95, 85, 83, 69, 82, 95, 75, 69, 89>>

\* The keys keygen can return: the valid keys.
DerivedKeys ==
  {urlsafe_b64encode(PBKDF2HMAC(p, x)) : p \in {<<112>>, <<113>>}, x \in Salts}
\* "not-a-valid-key", and well-formed base64 of one byte too many.
NotAValidKey == <<110, 111, 116, 45, 97, 45, 118, 97, 108, 105, 100, 45, 107, 101, 121>>
LongKey == urlsafe_b64encode([i \in 1..(KeyLen + 1) |-> 65])
\* The key arguments tried in free calls: no text, malformed, and two valid keys.
KeyArgs ==
  {None, Some(NotAValidKey), Some(LongKey)}
  \cup {Some(urlsafe_b64encode(PBKDF2HMAC(p, <<1>>))) : p \in {<<112>>, <<113>>}}

\* ------------------------------------------------------------------- state
VARIABLES
  call,   \* the last call: operation, arguments, locals, effects and result
  sent,   \* session: what the caller encrypted and got back
  stage   \* session: the caller's position, "free" outside a session

vars == <<call, sent, stage>>

\* Outcome of a try block: returned value, the exception raised inside it ("" if none),
\* the Popen calls made (command line and what became of it) and the locals reached.
Returned(v, popen, locals) ==
  [error |-> "", val |-> v, popen |-> popen, locals |-> locals]
Raised(error, popen, locals) ==
  [error |-> error, val |-> None, popen |-> popen, locals |-> locals]

\* Slip: except ValueError, which lets every other exception through.
Guarded_ValueErrorOnly(op, args, body) ==
  With(body, LAMBDA b :
  LET caught == b.error \in {"ValueError", "UnicodeEncodeError", "UnicodeDecodeError"}
  IN [op |-> op, args |-> args, locals |-> b.locals, popen |-> b.popen,
      raised |-> b.error,
      printed |-> IF caught THEN 1 ELSE 0,
      propagated |-> b.error # "" /\ ~caught,
      result |-> IF b.error = "" THEN b.val ELSE None])

\* try: ... except Exception as error: print(...): whatever was raised inside
\* is caught, one diagnostic line is printed and the function falls off its
\* end, returning None.
Guarded(op, args, body) ==
  With(body, LAMBDA b :
  [op |-> op, args |-> args, locals |-> b.locals, popen |-> b.popen,
   raised |-> b.error,
   printed |-> IF b.error = "" THEN 0 ELSE 1,
   propagated |-> FALSE,
   result |-> IF b.error = "" THEN b.val ELSE None])

NoLocals == [key |-> <<>>, encode |-> <<>>, super_encode |-> <<>>,
             decode |-> Raise, super_decode |-> Raise]

\* f"setx {key_name} {key}"
StoreCommand(key_name, key) == <<115, 101, 116, 120, 32>> \o key_name \o <<32>> \o key

\* ------------------------------------------------------------------- keygen
\* if key_name is None: key_name = _KEY_NAME
KeyName(key_name) == IF key_name = None THEN _KEY_NAME ELSE key_name.val

\* Slip: nothing is stored when no name is given.
KeygenStore_named_only(key_name, key) ==
  IF key_name = None THEN <<>> ELSE <<StoreCommand(key_name.val, key)>>

\* The command lines keygen hands to Popen.
KeygenStore(key_name, key) == <<StoreCommand(KeyName(key_name), key)>>

\* Slip: the key is returned whatever return_key says.
KeygenReturn_always(return_key, key) == Some(key)

\* if return_key is True: return key   (None at the end of the function)
KeygenReturn(return_key, key) == IF return_key = "True" THEN Some(key) ELSE None

\* entropy is what urandom(128) does in this call, spawn what becomes of the
\* Popen call: the shell cannot be started (OSError), or the command is
\* started and then stores the key ("stored") or fails ("failed"); keygen
\* never waits for it nor reads its exit status.
keygen(key_name, passcode, return_key, entropy, spawn) ==
  Guarded("keygen",
          [key_name |-> key_name, passcode |-> passcode, return_key |-> return_key],
    IF ~passcode.some THEN Raised("AttributeError", <<>>, NoLocals) ELSE
    With(Utf8Encode(passcode.val), LAMBDA password :
    IF ~password.ok THEN Raised("UnicodeEncodeError", <<>>, NoLocals) ELSE
    IF ~entropy.ok THEN Raised("NotImplementedError", <<>>, NoLocals) ELSE
    With(urlsafe_b64encode(PBKDF2HMAC(password.val, entropy.val)), LAMBDA key :
    With(KeygenStore(key_name, key), LAMBDA commands :
    LET popen == List([i \in 1..Len(commands) |->
                        [command |-> commands[i], outcome |-> spawn]])
        locals == [NoLocals EXCEPT !.key = key]
    IN IF spawn = "OSError" THEN Raised("OSError", popen, locals)
       ELSE Returned(KeygenReturn(return_key, key), popen, locals)))))

\* ------------------------------------------------------------------ encrypt
\* Slip: the second layer is left out.
Wrap_once(f, to_encode, t1, iv1, t2, iv2) ==
  With(FernetEncrypt(f, t1, iv1, to_encode), LAMBDA encode :
  [encode |-> encode, super_encode |-> encode])

\* encode = fernet_key.encrypt(to_encode)
\* super_encode = fernet_key.encrypt(encode)
Wrap(f, to_encode, t1, iv1, t2, iv2) ==
  With(FernetEncrypt(f, t1, iv1, to_encode), LAMBDA encode :
  [encode |-> encode, super_encode |-> FernetEncrypt(f, t2, iv2, encode)])

\* (t1, iv1) and (t2, iv2) are the clock reading and iv of the two
\* Fernet.encrypt calls.
encrypt(message, key, t1, iv1, t2, iv2) ==
  Guarded("encrypt", [message |-> message, key |-> key],
    IF ~message.some THEN Raised("AttributeError", <<>>, NoLocals) ELSE
    With(Utf8Encode(message.val), LAMBDA to_encode :
    IF ~to_encode.ok THEN Raised("UnicodeEncodeError", <<>>, NoLocals) ELSE
    IF ~key.some THEN Raised("AttributeError", <<>>, NoLocals) ELSE
    With(Utf8Encode(key.val), LAMBDA key_bytes :
    IF ~key_bytes.ok THEN Raised("UnicodeEncodeError", <<>>, NoLocals) ELSE
    With(Fernet(key_bytes.val), LAMBDA fernet_key :
    IF ~fernet_key.ok THEN Raised("ValueError", <<>>, NoLocals) ELSE
    With(Wrap(fernet_key.val, to_encode.val, t1, iv1, t2, iv2), LAMBDA layers :
    With(Utf8Decode(layers.super_encode), LAMBDA text :
    LET locals == [NoLocals EXCEPT !.encode = layers.encode,
                                   !.super_encode = layers.super_encode]
    IN IF ~text.ok THEN Raised("UnicodeDecodeError", <<>>, locals)
       ELSE Returned(Some(text.val), <<>>, locals)))))))

\* ------------------------------------------------------------------ decrypt
\* Slip: the second unwrap is left out.
Unwrap_once(f, token) ==
  With(FernetDecrypt(f, token), LAMBDA decode :
  [decode |-> decode, super_decode |-> decode])

\* Slip: the second unwrap is applied to the input again, not to decode.
Unwrap_same_input(f, token) ==
  With(FernetDecrypt(f, token), LAMBDA decode :
  [decode |-> decode, super_decode |-> FernetDecrypt(f, token)])

\* decode = fernet_key.decrypt(encrypted_text.encode())
\* super_decode = fernet_key.decrypt(decode)
Unwrap(f, token) ==
  With(FernetDecrypt(f, token), LAMBDA decode :
  [decode |-> decode,
   super_decode |-> IF decode.ok THEN FernetDecrypt(f, decode.val) ELSE Raise])

decrypt(encrypted_text, key) ==
  Guarded("decrypt", [encrypted_text |-> encrypted_text, key |-> key],
    IF ~key.some THEN Raised("AttributeError", <<>>, NoLocals) ELSE
    With(Utf8Encode(key.val), LAMBDA key_bytes :
    IF ~key_bytes.ok THEN Raised("UnicodeEncodeError", <<>>, NoLocals) ELSE
    With(Fernet(key_bytes.val), LAMBDA fernet_key :
    IF ~fernet_key.ok THEN Raised("ValueError", <<>>, NoLocals) ELSE
    IF ~encrypted_text.some THEN Raised("AttributeError", <<>>, NoLocals) ELSE
    With(Utf8Encode(encrypted_text.val), LAMBDA token :
    IF ~token.ok THEN Raised("UnicodeEncodeError", <<>>, NoLocals) ELSE
    With(Unwrap(fernet_key.val, token.val), LAMBDA layers :
    LET decode == layers.decode
        super_decode == layers.super_decode
        first == [NoLocals EXCEPT !.decode = decode]
        both == [NoLocals EXCEPT !.decode = decode, !.super_decode = super_decode]
    IN IF ~decode.ok THEN Raised("InvalidToken", <<>>, first) ELSE
       IF ~super_decode.ok THEN Raised("InvalidToken", <<>>, both) ELSE
       With(Utf8Decode(super_decode.val), LAMBDA text :
       IF ~text.ok THEN Raised("UnicodeDecodeError", <<>>, both)
       ELSE Returned(Some(text.val), <<>>, both)))))))

\* ----------------------------------------------------------------- actions
NoCall == [op |-> "none", args |-> <<>>, locals |-> NoLocals, popen |-> <<>>,
           raised |-> "", printed |-> 0, propagated |-> FALSE, result |-> None]
NoSent == [message |-> <<>>, key |-> <<>>, encode |-> <<>>, super_encode |-> <<>>,
           token |-> None]

Init == call = NoCall /\ sent = NoSent /\ stage = "free"

Keygen ==
  /\ stage = "free"
  /\ \E key_name \in KeyNames, passcode \in Passcodes, return_key \in ReturnKeys,
        entropy \in Entropy, spawn \in Spawns :
       call' = keygen(key_name, passcode, return_key, entropy, spawn)
  /\ UNCHANGED <<sent, stage>>

Encrypt ==
  /\ stage = "free"
  /\ \E message \in Messages, key \in KeyArgs, t1 \in Times, iv1 \in IVs,
        t2 \in Times, iv2 \in IVs :
       call' = encrypt(message, key, t1, iv1, t2, iv2)
  /\ UNCHANGED <<sent, stage>>

\* A text that is no token at all.
Junk == <<106, 117, 110, 107>>

\* The caller decrypts what the last call returned, junk, or no text.
Decrypt ==
  /\ stage = "free"
  /\ \E encrypted_text \in {None, Some(Junk), call.result}, key \in KeyArgs :
       call' = decrypt(encrypted_text, key)
  /\ UNCHANGED <<sent, stage>>

Next == Keygen \/ Encrypt \/ Decrypt

Spec == Init /\ [][Next]_vars

\* ----------------------------------------------------------------- session
\* The use the three operations are made for: the caller encrypts a message
\* under a derived key, keeps the returned text, and later hands a text and
\* a key to decrypt. What it hands over is the text it kept, that text with
\* one character changed, or the message wrapped once or three times.

\* The sextet v with bit k flipped.
FlipBit(v, k) ==
  LET w == IF k = 0 THEN 1 ELSE IF k = 1 THEN 2 ELSE IF k = 2 THEN 4
           ELSE IF k = 3 THEN 8 ELSE IF k = 4 THEN 16 ELSE 32
  IN IF (v \div w) % 2 = 1 THEN v - w ELSE v + w

\* Characters put in the place of c: the alphabet characters one bit away
\* from it, the four spellings of 62 and 63, 'A', '=', '!' and U+00E9.
Substitutes(c) ==
  ((IF IsData(c) THEN {B64Char(FlipBit(B64Val(c), k)) : k \in 0..5} ELSE {})
   \cup {43, 45, 47, 95, 65, 61, 33, 233}) \ {c}

OneCharChanged(text) ==
  UNION {{[text EXCEPT ![i] = c] : c \in Substitutes(text[i])} : i \in 1..Len(text)}

\* The pairs (text, key) the caller may hand to decrypt.
Deliveries ==
  IF ~sent.token.some THEN {<<sent.token, Some(sent.key)>>}
  ELSE LET f == Fernet(sent.key).val IN
    {<<sent.token, Some(k)>> : k \in DerivedKeys}
    \cup {<<Some(t), Some(sent.key)>> : t \in OneCharChanged(sent.token.val)}
    \cup {<<Some(Utf8Decode(sent.encode).val), Some(sent.key)>>}
    \cup {<<Some(Utf8Decode(FernetEncrypt(f, t3, iv3, sent.super_encode)).val),
            Some(sent.key)>> : t3 \in Times, iv3 \in IVs}

InitSession == call = NoCall /\ sent = NoSent /\ stage = "start"

SessionEncrypt ==
  /\ stage = "start"
  /\ \E message \in Texts, key \in DerivedKeys, t1 \in Times, iv1 \in IVs,
        t2 \in Times, iv2 \in IVs :
       /\ call' = encrypt(Some(message), Some(key), t1, iv1, t2, iv2)
       /\ sent' = [message |-> message, key |-> key,
                   encode |-> call'.locals.encode,
                   super_encode |-> call'.locals.super_encode,
                   token |-> call'.result]
  /\ stage' = "sealed"

SessionDecrypt ==
  /\ stage = "sealed"
  /\ \E d \in Deliveries : call' = decrypt(d[1], d[2])
  /\ stage' = "opened"
  /\ UNCHANGED sent

NextSession == SessionEncrypt \/ SessionDecrypt

SpecSession == InitSession /\ [][NextSession]_vars

\* ------------------------------------------------------------------ claims
\* The caller handed decrypt the text encrypt returned / the key it used.
Exact == stage = "opened" /\ call.args.encrypted_text = sent.token
SameKey == stage = "opened" /\ call.args.key = Some(sent.key)
Encodable(t) == \A i \in 1..Len(t) : ~IsSurrogate(t[i])
\* a and b have the same length and differ in exactly one place.
DiffersInOne(a, b) ==
  Len(a) = Len(b) /\ Cardinality({i \in 1..Len(a) : a[i] # b[i]}) = 1
Tampered ==
  /\ stage = "opened" /\ sent.token.some /\ call.args.encrypted_text.some
  /\ DiffersInOne(call.args.encrypted_text.val, sent.token.val)
\* The bytes Fernet reads out of a text.
TokenBytes(text) == urlsafe_b64decode(Utf8Encode(text).val)
Keygen_ok == call.op = "keygen" /\ call.raised = ""
\* The command lines handed to Popen in the call.
Commands == [i \in 1..Len(call.popen) |-> call.popen[i].command]
\* A store command of the call was started and failed.
StoreFailed == \E i \in 1..Len(call.popen) : call.popen[i].outcome = "failed"

C2_TamperFails == (Tampered /\ SameKey) => call.result = None

\* C2, amended: decrypt of the changed text never returns a plaintext other
\* than M; it returns None, unless the changed text still decodes to the
\* bytes of the original token, and then it returns M.
C2_TamperNeverWrong ==
  (Tampered /\ SameKey) =>
    \/ call.result = None
    \/ /\ call.result = Some(sent.message)
       /\ TokenBytes(call.args.encrypted_text.val) = TokenBytes(sent.token.val)

C2_Witness ==
  Tampered /\ SameKey /\ call.result = None /\ call.raised = "InvalidToken"

\* C3: decrypt of encrypt(M, K1) under another derived key K2 returns None.
C3_WrongKeyFails ==
  (Exact /\ call.args.key.some /\ call.args.key.val \in DerivedKeys \ {sent.key})
    => call.result = None

\* The hard case: K2 shares the signing half of K1, the outer layer comes
\* off and its bytes are rejected as a token.
C3_Witness ==
  /\ Exact /\ sent.token.some /\ call.args.key.val \in DerivedKeys \ {sent.key}
  /\ call.locals.decode.ok /\ call.result = None

\* C4 as stated: in each operation every failure, a failure of the key
\* store included, is caught inside it and reported once, the operation
\* returns None and nothing reaches the caller.
C4_EveryFailureReported ==
  /\ ~call.propagated
  /\ (call.raised # "" \/ StoreFailed) => call.printed = 1 /\ call.result = None

\* C4, amended: whatever is raised inside an operation is caught inside it
\* and reported once, the operation returns None and nothing reaches the
\* caller; a call in which nothing is raised reports nothing, also when the
\* store command it started has failed.
C4_FailureContained ==
  /\ ~call.propagated
  /\ call.raised # "" => call.printed = 1 /\ call.result = None
  /\ call.raised = "" => call.printed = 0

C4_Witness ==
  /\ call.op = "encrypt" /\ call.args.key = Some(NotAValidKey)
  /\ call.raised = "ValueError" /\ call.printed = 1 /\ call.result = None

\* C5: a keygen call in which nothing fails returns the encoded key if
\* return_key is True and None otherwise; the key returned is the one in
\* the command handed to the key store in that call.
C5_ReturnPolicy ==
  Keygen_ok =>
    IF call.args.return_key = "True"
      THEN /\ call.result.some
           /\ Commands = <<StoreCommand(KeyName(call.args.key_name), call.result.val)>>
      ELSE call.result = None

C5_Witness ==
  Keygen_ok /\ call.args.return_key = "True" /\ call.result.some /\ Len(call.popen) = 1

\* C6 as stated: every keygen call writes to the key store exactly once,
\* whatever its outcome; encrypt and decrypt never touch the key store.
C6_WritesOncePerCall ==
  /\ call.op = "keygen" => Len(call.popen) = 1
  /\ call.op \in {"encrypt", "decrypt"} => call.popen = <<>>

\* C6, amended: a keygen call that gets as far as deriving a key invokes
\* the key store exactly once, with the label (the default one when none is
\* given) and that key, whatever return_key; a call that fails before
\* writes nothing, and a call in which nothing fails derived a key; encrypt
\* and decrypt never touch the key store.
C6_WritesOnceWhenDerived ==
  /\ call.op = "keygen" =>
       /\ call.locals.key # <<>> =>
            Commands = <<StoreCommand(KeyName(call.args.key_name), call.locals.key)>>
       /\ call.locals.key = <<>> => call.popen = <<>> /\ call.raised # ""
  /\ call.op \in {"encrypt", "decrypt"} => call.popen = <<>>

C6_Witness ==
  Keygen_ok /\ call.args.return_key = "False" /\ Len(call.popen) = 1

\* C8: keygen called with an empty key_name stores the key under the
\* default label ADMIN_USER_KEY, with a non-empty one under that name.
C8_DefaultLabel ==
  Keygen_ok =>
    Commands =
      <<StoreCommand(IF call.args.key_name = None \/ call.args.key_name.val = <<>>
                       THEN _KEY_NAME ELSE call.args.key_name.val,
                     call.locals.key)>>

\* C9: encrypt wraps twice under the one key, layer 1 over the message
\* bytes and layer 2 over the layer-1 token; decrypt takes the layers off in
\* reverse: its first unwrap yields the layer-1 token encrypt produced, its
\* second the bytes of M.
C9_LayerOrder ==
  /\ (stage = "sealed" /\ call.result.some) =>
       LET f == Fernet(sent.key).val IN
       /\ FernetDecrypt(f, call.locals.super_encode) = Ok(call.locals.encode)
       /\ FernetDecrypt(f, call.locals.encode) = Utf8Encode(sent.message)
       /\ Utf8Encode(call.result.val) = Ok(call.locals.super_encode)
  /\ (Exact /\ SameKey /\ sent.token.some) =>
       /\ call.locals.decode = Ok(sent.encode)
       /\ call.locals.super_decode = Utf8Encode(sent.message)

C9_Witness ==
  /\ Exact /\ SameKey /\ sent.message = <<97>>
  /\ call.locals.decode = Ok(sent.encode) /\ call.locals.super_decode = Ok(<<97>>)

\* C10: decrypt returns a text only if both unwraps succeed. Given the
\* single-wrapped token of a message M that is no token itself, it returns
\* None, never M; given a triple-wrapped one (a longer text whose outer
\* layer comes off to the token encrypt returned), it returns the text of
\* the single-wrapped token, not M.
C10_TwoLayersNeeded ==
  /\ (call.op = "decrypt" /\ call.result.some) =>
       call.locals.decode.ok /\ call.locals.super_decode.ok
  /\ (SameKey /\ sent.token.some) =>
       LET f == Fernet(sent.key).val
           text == call.args.encrypted_text.val
           single == Utf8Decode(sent.encode).val
       IN /\ ~FernetDecrypt(f, Utf8Encode(sent.message).val).ok
          /\ text = single => call.result = None
          /\ (/\ Len(text) > Len(sent.token.val)
              /\ FernetDecrypt(f, Utf8Encode(text).val) = Ok(sent.super_encode)) =>
               call.result = Some(single) /\ call.result # Some(sent.message)

C10_Witness ==
  /\ SameKey /\ sent.token.some /\ call.args.encrypted_text # sent.token
  /\ call.result = Some(Utf8Decode(sent.encode).val)
====
